---- MODULE Spec2Model ----
(***************************************************************************)
(* Model of the logic-template engine of                                   *)
(* error_template_value_imputation.py: parse_template, is_truthy,          *)
(* resolve_name, render_tokens and render; and of the export workflow of   *)
(* download-workato-manifest.py: main's loop over the selected projects,   *)
(* wait_for_package and prompt_yes_no.                                     *)
(*                                                                         *)
(* A text is a sequence of one-character strings.  Python indices are      *)
(* kept 0-based: template[i] is template[i + 1] here.                      *)
(* Python lists that are aliased (the token lists held both by the tree    *)
(* and by the parser's stack) live in a heap, `lists`, and are named by    *)
(* their index in it; lists[1] is the top-level `tokens` list.             *)
(***************************************************************************)
EXTENDS Integers, Sequences, FiniteSets, TLC

VARIABLES template, idx, lists, stack, section_stack, pc, err, ret,
          data, frames, result,
          args, selected, project, step, candidate, working_base,
          clock, deadline, last, fetches, proj, request

vars == <<template, idx, lists, stack, section_stack, pc, err, ret,
          data, frames, result,
          args, selected, project, step, candidate, working_base,
          clock, deadline, last, fetches, proj, request>>

parseVars == <<template, idx, lists, stack, section_stack, err, ret>>
renderVars == <<data, frames, result>>
templateVars == <<template, idx, lists, stack, section_stack, pc, err, ret,
                  data, frames, result>>
waitVars == <<clock, deadline, last, fetches>>
exportVars == <<args, selected, project, step, candidate, working_base,
                clock, deadline, last, fetches, proj, request>>

\* Number of fragments a template is assembled from.
MaxPieces == 3

\* Number of selected projects of a run.
MaxProjects == 2

\* Largest --poll-timeout and --poll-interval of a run, in seconds.
MaxPollTimeout == 2
MaxPollInterval == 2

\* Longest time a package request takes, in seconds.
MaxLatency == 1

\* err before any error is raised.
NoError == [kind |-> "", detail |-> <<>>]

-----------------------------------------------------------------------------
(* Texts *)

OPEN == <<"{", "{">>
CLOSE == <<"}", "}">>

\* s[a:b] of Python for 0 <= a, b; an end past len(s) is cut to len(s).
Slice(s, a, b) ==
  LET e == IF b > Len(s) THEN Len(s) ELSE b
  IN IF e <= a THEN <<>> ELSE SubSeq(s, a + 1, e)

\* s.find(sub, from): the least 0-based position >= from where sub occurs, or -1.
Find(s, sub, from) ==
  LET hits == {i \in from..(Len(s) - Len(sub)) : Slice(s, i, i + Len(sub)) = sub}
  IN IF hits = {} THEN -1 ELSE CHOOSE i \in hits : \A j \in hits : i <= j

\* s.strip(): blanks removed from both ends.
Strip(s) ==
  LET solid == {i \in 1..Len(s) : s[i] # " "}
  IN IF solid = {} THEN <<>>
     ELSE SubSeq(s, CHOOSE i \in solid : \A j \in solid : i <= j,
                    CHOOSE i \in solid : \A j \in solid : i >= j)

RECURSIVE Join(_, _)
\* sep.join(parts)
Join(parts, sep) ==
  IF parts = <<>> THEN <<>>
  ELSE IF Len(parts) = 1 THEN parts[1]
  ELSE parts[1] \o sep \o Join(Tail(parts), sep)

RECURSIVE Concat(_)
Concat(parts) == IF parts = <<>> THEN <<>> ELSE parts[1] \o Concat(Tail(parts))

-----------------------------------------------------------------------------
(* Tokens *)

\* A literal run of template text (a Python str in a token list).
Literal(text) == [k |-> "lit", text |-> text]

VariableToken(name) == [k |-> "var", name |-> name]

\* tokens is the heap index of the section's own token list.
SectionToken(name, tokens, inverted) ==
  [k |-> "sec", name |-> name, tokens |-> tokens, inverted |-> inverted]

\* list.append on the heap list `id`.
Append_(h, id, item) == [h EXCEPT ![id] = Append(@, item)]

-----------------------------------------------------------------------------
(* Templates the parser is run on *)

OpenA == <<"{", "{", "#", "a", "}", "}">>
OpenB == <<"{", "{", "#", " ", "b", " ", "}", "}">>
InvertedA == <<"{", "{", "^", "a", "}", "}">>
CloseA == <<"{", "{", "/", "a", "}", "}">>
CloseB == <<"{", "{", "/", "b", "}", "}">>
VarDot == <<"{", "{", ".", "}", "}">>
VarB == <<"{", "{", "b", "}", "}">>
VarAB == <<"{", "{", "a", ".", "b", "}", "}">>
BlankTag == <<"{", "{", " ", "}", "}">>
TextX == <<"x">>
TextLt == <<"<">>

Fragments ==
  {OpenA, OpenB, InvertedA, CloseA, CloseB, VarDot, VarB, VarAB, BlankTag, OPEN, TextX,
   TextLt}

RECURSIVE Assemblies(_)
\* Every concatenation of at most n fragments.
Assemblies(n) ==
  IF n = 0 THEN {<<>>}
  ELSE LET shorter == Assemblies(n - 1)
       IN shorter \cup {s \o f : s \in shorter, f \in Fragments}

Templates == Assemblies(MaxPieces)

-----------------------------------------------------------------------------
(* Values of the data context: t is the Python type, v the payload *)

Null == [t |-> "null", v |-> 0]
Bool(b) == [t |-> "bool", v |-> b]
Num(n) == [t |-> "num", v |-> n]
Str(s) == [t |-> "str", v |-> s]
List(items) == [t |-> "list", v |-> items]
\* entries: a sequence of [k |-> text, v |-> value] with distinct keys, in insertion order.
Dict(entries) == [t |-> "dict", v |-> entries]
Entry(k, v) == [k |-> k, v |-> v]

\* data before render is called.
NoData == [t |-> "none", v |-> 0]

HasKey(value, part) == \E i \in 1..Len(value.v) : value.v[i].k = part
GetKey(value, part) ==
  value.v[CHOOSE i \in 1..Len(value.v) : value.v[i].k = part].v

\* Truthiness under which every number, zero included, is true.
is_truthy_NumbersTrue(value) ==
  IF value.t = "null" THEN FALSE
  ELSE IF value.t = "bool" THEN value.v
  ELSE IF value.t \in {"list", "dict"} THEN Len(value.v) > 0
  ELSE IF value.t = "str" THEN Len(value.v) > 0
  ELSE TRUE

\* Lines 70-79.  The last line, bool(value), is reached by numbers only.
is_truthy(value) ==
  IF value.t = "null" THEN FALSE
  ELSE IF value.t = "bool" THEN value.v
  ELSE IF value.t \in {"list", "dict"} THEN Len(value.v) > 0
  ELSE IF value.t = "str" THEN Len(value.v) > 0
  ELSE value.v # 0

RECURSIVE Split(_, _)
\* s.split(sep) for a one-character sep.
Split(s, sep) ==
  LET hits == {i \in 1..Len(s) : s[i] = sep}
  IN IF hits = {} THEN <<s>>
     ELSE LET i == CHOOSE i \in hits : \A j \in hits : i <= j
          IN <<SubSeq(s, 1, i - 1)>> \o Split(SubSeq(s, i + 1, Len(s)), sep)

\* Lines 93-95: the attribute branch is open to values outside the listed
\* builtin types; of the values of the model that is None alone, whose
\* attributes are all dunder names, and no name segment used here is one.
HasAttr(value, part) == FALSE

RECURSIVE WalkPath(_, _)
\* Lines 88-99: the inner loop over the segments, from one context.
WalkPath(value, parts) ==
  IF parts = <<>> THEN [matched |-> TRUE, value |-> value]
  ELSE IF value.t = "dict" /\ HasKey(value, parts[1])
       THEN WalkPath(GetKey(value, parts[1]), Tail(parts))
  ELSE IF value.t = "null" /\ HasAttr(value, parts[1])
       THEN WalkPath(Null, Tail(parts))
  ELSE [matched |-> FALSE, value |-> Null]

RECURSIVE ResolveFrom_PrefixCommits(_, _, _)
\* A lookup that settles on the innermost context holding the first segment.
ResolveFrom_PrefixCommits(parts, context_stack, i) ==
  IF i = 0 THEN Null
  ELSE IF context_stack[i].t = "dict" /\ HasKey(context_stack[i], parts[1])
       THEN WalkPath(context_stack[i], parts).value
  ELSE ResolveFrom_PrefixCommits(parts, context_stack, i - 1)

RECURSIVE ResolveFrom(_, _, _)
\* Lines 87-102: the contexts context_stack[i], ..., context_stack[1] in turn.
ResolveFrom(parts, context_stack, i) ==
  IF i = 0 THEN Null
  ELSE LET r == WalkPath(context_stack[i], parts)
       IN IF r.matched THEN r.value ELSE ResolveFrom(parts, context_stack, i - 1)

\* A lookup in which "." is the outermost context.
resolve_name_DotIsRoot(name, context_stack) ==
  IF name = <<".">> THEN context_stack[1]
  ELSE ResolveFrom(Split(name, "."), context_stack, Len(context_stack))

\* Lines 82-102.  "Not found" is None, as in the code.
resolve_name(name, context_stack) ==
  IF name = <<".">> THEN context_stack[Len(context_stack)]
  ELSE ResolveFrom(Split(name, "."), context_stack, Len(context_stack))

Digit(d) == <<"0", "1", "2", "3", "4", "5", "6", "7", "8", "9">>[d + 1]

RECURSIVE NatStr(_)
NatStr(n) == IF n < 10 THEN <<Digit(n)>> ELSE NatStr(n \div 10) \o <<Digit(n % 10)>>

\* repr(s) of a text without control characters: in single quotes, or in
\* double quotes when s holds a single quote and no double quote; the
\* enclosing quote and the backslash are escaped by a backslash.
ReprStr(s) ==
  LET has(c) == \E i \in 1..Len(s) : s[i] = c
      q == IF has("'") /\ ~has("\"") THEN "\"" ELSE "'"
  IN <<q>> \o Concat([i \in 1..Len(s) |->
                        IF s[i] = q \/ s[i] = "\\" THEN <<"\\", s[i]>> ELSE <<s[i]>>])
     \o <<q>>

RECURSIVE ToRepr(_)
\* repr(value)
ToRepr(value) ==
  IF value.t = "null" THEN <<"N", "o", "n", "e">>
  ELSE IF value.t = "bool"
       THEN (IF value.v THEN <<"T", "r", "u", "e">> ELSE <<"F", "a", "l", "s", "e">>)
  ELSE IF value.t = "num" THEN NatStr(value.v)
  ELSE IF value.t = "str" THEN ReprStr(value.v)
  ELSE IF value.t = "list"
       THEN <<"[">> \o Join([i \in 1..Len(value.v) |-> ToRepr(value.v[i])], <<",", " ">>)
            \o <<"]">>
  ELSE <<"{">> \o Join([i \in 1..Len(value.v) |->
                          <<"'">> \o value.v[i].k \o <<"'", ":", " ">> \o ToRepr(value.v[i].v)],
                       <<",", " ">>)
       \o <<"}">>

\* str(value)
ToStr(value) == IF value.t = "str" THEN value.v ELSE ToRepr(value)

EscapeChar(c) ==
  IF c = "&" THEN <<"&", "a", "m", "p", ";">>
  ELSE IF c = "<" THEN <<"&", "l", "t", ";">>
  ELSE IF c = ">" THEN <<"&", "g", "t", ";">>
  ELSE IF c = "\"" THEN <<"&", "q", "u", "o", "t", ";">>
  ELSE IF c = "'" THEN <<"&", "#", "x", "2", "7", ";">>
  ELSE <<c>>

\* html.escape(s, quote=False): the two quote characters are left alone.
escape_NoQuotes(s) ==
  Concat([i \in 1..Len(s) |-> IF s[i] \in {"\"", "'"} THEN <<s[i]>> ELSE EscapeChar(s[i])])

\* html.escape(s), quote=True
escape(s) == Concat([i \in 1..Len(s) |-> EscapeChar(s[i])])

-----------------------------------------------------------------------------
(* Root contexts render is run on *)

A == <<"a">>
B == <<"b">>

ContextList ==
  << Dict(<<>>),
     Dict(<<Entry(A, Null)>>),
     Dict(<<Entry(A, Bool(FALSE)), Entry(B, Num(1))>>),
     Dict(<<Entry(A, Bool(TRUE)), Entry(B, Str(<<"<", "b", ">", "&", "\"", "'">>))>>),
     Dict(<<Entry(A, Num(0)), Entry(B, Num(2))>>),
     Dict(<<Entry(A, Num(7))>>),
     Dict(<<Entry(A, Str(<<>>)), Entry(B, Num(1))>>),
     Dict(<<Entry(A, Str(<<"s">>)), Entry(B, Num(1))>>),
     Dict(<<Entry(A, List(<<>>))>>),
     Dict(<<Entry(A, List(<<Num(1), Num(2), Num(3)>>)), Entry(B, Num(3))>>),
     Dict(<<Entry(A, List(<<Dict(<<Entry(B, Num(1))>>), Num(0)>>)), Entry(B, Num(9))>>),
     Dict(<<Entry(A, Dict(<<>>)), Entry(B, Num(1))>>),
     Dict(<<Entry(A, Dict(<<Entry(A, Num(0)), Entry(B, Num(2))>>)), Entry(B, Num(5))>>),
     Dict(<<Entry(A, Dict(<<Entry(A, Dict(<<Entry(B, Num(1))>>)), Entry(B, Num(2))>>))>>),
     Num(0),
     Null >>

-----------------------------------------------------------------------------
(* download-workato-manifest.py: values *)

\* A base URL is its host, one element, followed by its trailing slashes.
DEFAULT_BASE_URL == <<"https://www.workato.com">>
AppBase == <<"https://app.workato.com">>
EuBase == <<"https://www.workato.eu">>

\* The values of --base-url of the model: none (empty), a known host with a
\* trailing slash, a host of its own with two.
UserBases ==
  << <<>>,
     <<"https://app.workato.com", "/">>,
     <<"https://example.test", "/", "/">> >>

\* s.rstrip(c)
RStrip(s, c) ==
  LET keep == {i \in 1..Len(s) : s[i] # c}
  IN IF keep = {} THEN <<>>
     ELSE SubSeq(s, 1, CHOOSE i \in keep : \A j \in keep : i >= j)

normalize_base(url) == RStrip(url, "/")

fallback_base_urls(user_base) ==
  LET add(candidates, alt) ==
        IF \E i \in 1..Len(candidates) : candidates[i] = normalize_base(alt)
        THEN candidates
        ELSE Append(candidates, normalize_base(alt))
  IN add(add(add(<<normalize_base(IF user_base = <<>> THEN DEFAULT_BASE_URL ELSE user_base)>>,
                 DEFAULT_BASE_URL), AppBase), EuBase)

\* c.lower() for the letters the statuses and answers of the model use.
LowerChar(c) ==
  CASE c = "C" -> "c"
    [] c = "E" -> "e"
    [] c = "S" -> "s"
    [] c = "Y" -> "y"
    [] OTHER -> c

Lower(s) == [i \in 1..Len(s) |-> LowerChar(s[i])]

\* The "status" of a package response; the empty text stands for a missing,
\* null or empty status, which `last.get("status") or ""` makes the same.
StatusNone == <<>>
StatusInProgress == <<"i", "n", "_", "p", "r", "o", "g", "r", "e", "s", "s">>
StatusCompleted == <<"c", "o", "m", "p", "l", "e", "t", "e", "d">>
StatusCompletedCap == <<"C", "o", "m", "p", "l", "e", "t", "e", "d">>
StatusFailed == <<"f", "a", "i", "l", "e", "d">>

Statuses ==
  {StatusNone, StatusInProgress, StatusCompleted, StatusCompletedCap, StatusFailed}

\* Line 361: the statuses that end the wait.
Finished == {StatusCompleted, StatusFailed}

\* What the user types at a prompt.
Answers ==
  { <<>>, <<" ">>, <<"y">>, <<"Y">>, <<" ", "y", "e", "s", " ">>,
    <<"Y", "E", "S">>, <<"n">>, <<"y", "e">> }

\* The sleep of one poll, without the floor of one second.
SleepTime_NoFloor(poll_interval) == poll_interval

\* Line 363: max(1, poll_interval)
SleepTime(poll_interval) == IF poll_interval > 1 THEN poll_interval ELSE 1

\* A prompt whose empty answer means yes.
prompt_yes_no_EmptyIsYes(answer, default_no, assume_yes) ==
  LET choice == Lower(Strip(answer))
  IN IF assume_yes THEN TRUE
     ELSE IF choice = <<>> THEN TRUE
     ELSE choice \in {<<"y">>, <<"y", "e", "s">>}

\* Lines 433-440; answer is what input() returns when it is called.
prompt_yes_no(answer, default_no, assume_yes) ==
  LET choice == Lower(Strip(answer))
  IN IF assume_yes THEN TRUE
     ELSE IF choice = <<>> THEN ~default_no
     ELSE choice \in {<<"y">>, <<"y", "e", "s">>}

\* Lines 434-437: input() is called unless assume_yes.
ReadsInput(assume_yes) == ~assume_yes

\* What main holds about the project of the current iteration.
NewProject ==
  [ manifest |-> FALSE, package |-> FALSE, final |-> FALSE, timed_out |-> FALSE,
    downloaded |-> FALSE,
    pkg_viewed |-> FALSE, pkg_prompted |-> FALSE, pkg_answer |-> <<>>, pkg_delete |-> FALSE,
    man_viewed |-> FALSE, man_prompted |-> FALSE, man_answer |-> <<>>, man_delete |-> FALSE ]

NoRequest == [method |-> "", endpoint |-> "", base |-> <<>>]

\* session.<method>(f"{base_url.rstrip('/')}{endpoint}")
Request(method, endpoint, base_url) ==
  [method |-> method, endpoint |-> endpoint, base |-> RStrip(base_url, "/")]

\* The script is not running.
ExportIdle ==
  /\ args = [yes |-> FALSE, poll_interval |-> 0, poll_timeout |-> 0, base_url |-> <<>>]
  /\ selected = 0
  /\ project = 0
  /\ step = "idle"
  /\ candidate = 0
  /\ working_base = <<>>
  /\ clock = 0
  /\ deadline = 0
  /\ last = <<>>
  /\ fetches = 0
  /\ proj = NewProject
  /\ request = NoRequest

\* The template engine is not running.
TemplateIdle ==
  /\ template = <<>>
  /\ idx = 0
  /\ lists = << <<>> >>
  /\ stack = <<1>>
  /\ section_stack = <<>>
  /\ pc = "idle"
  /\ err = NoError
  /\ ret = 0
  /\ data = NoData
  /\ frames = <<>>
  /\ result = <<>>

-----------------------------------------------------------------------------
(* parse_template *)

Init ==
  /\ template \in Templates
  /\ idx = 0
  /\ lists = << <<>> >>
  /\ stack = <<1>>
  /\ section_stack = <<>>
  /\ pc = "parsing"
  /\ err = NoError
  /\ ret = 0
  /\ data = NoData
  /\ frames = <<>>
  /\ result = <<>>
  /\ ExportIdle

InLoop == pc = "parsing" /\ idx < Len(template)

start == Find(template, OPEN, idx)
end == Find(template, CLOSE, start)
tag_content == Strip(Slice(template, start + 2, end))
marker == tag_content[1]
tag_name == Strip(Slice(tag_content, 1, Len(tag_content)))

\* The heap after lines 34-35: the text before the tag goes to the innermost list.
WithLeadingText ==
  IF start > idx
  THEN Append_(lists, stack[Len(stack)], Literal(Slice(template, idx, start)))
  ELSE lists

HasTag == InLoop /\ start # -1 /\ end # -1 /\ tag_content # <<>>

\* The end of the scan without the rest of the template being kept.
ScanTail_DropsTail ==
  /\ InLoop
  /\ start = -1
  /\ pc' = "scanned"
  /\ UNCHANGED <<template, idx, lists, stack, section_stack, err, ret>>
  /\ UNCHANGED renderVars
  /\ UNCHANGED exportVars

\* Lines 29-32: no tag left, the rest of the template is one literal.
ScanTail ==
  /\ InLoop
  /\ start = -1
  /\ lists' = Append_(lists, stack[Len(stack)],
                      Literal(Slice(template, idx, Len(template))))
  /\ pc' = "scanned"
  /\ UNCHANGED <<template, idx, stack, section_stack, err, ret>>
  /\ UNCHANGED renderVars
  /\ UNCHANGED exportVars

\* An unclosed "{{" taken as literal text to the end of the template.
ScanUnclosedTag_AsLiteral ==
  /\ InLoop
  /\ start # -1
  /\ end = -1
  /\ lists' = Append_(lists, stack[Len(stack)],
                      Literal(Slice(template, idx, Len(template))))
  /\ pc' = "scanned"
  /\ UNCHANGED <<template, idx, stack, section_stack, err, ret>>
  /\ UNCHANGED renderVars
  /\ UNCHANGED exportVars

\* Lines 34-39: "{{" without "}}".
ScanUnclosedTag ==
  /\ InLoop
  /\ start # -1
  /\ end = -1
  /\ lists' = WithLeadingText
  /\ err' = [kind |-> "Unclosed tag in template", detail |-> <<>>]
  /\ pc' = "parse_error"
  /\ UNCHANGED <<template, idx, stack, section_stack, ret>>
  /\ UNCHANGED renderVars
  /\ UNCHANGED exportVars

\* An empty tag kept as a variable with the empty name.
TagEmpty_AsVariable ==
  /\ InLoop
  /\ start # -1
  /\ end # -1
  /\ tag_content = <<>>
  /\ lists' = Append_(WithLeadingText, stack[Len(stack)], VariableToken(tag_content))
  /\ idx' = end + 2
  /\ UNCHANGED <<template, stack, section_stack, pc, err, ret>>
  /\ UNCHANGED renderVars
  /\ UNCHANGED exportVars

\* Lines 41-45: a tag that is empty after trimming.
TagEmpty ==
  /\ InLoop
  /\ start # -1
  /\ end # -1
  /\ tag_content = <<>>
  /\ lists' = WithLeadingText
  /\ idx' = end + 2
  /\ UNCHANGED <<template, stack, section_stack, pc, err, ret>>
  /\ UNCHANGED renderVars
  /\ UNCHANGED exportVars

\* Lines 48-53: "#" or "^" opens a section.
TagOpen ==
  /\ HasTag
  /\ marker \in {"#", "^"}
  /\ LET id == Len(lists) + 1
         section == SectionToken(tag_name, id, marker = "^")
     IN /\ lists' = Append(Append_(WithLeadingText, stack[Len(stack)], section), <<>>)
        /\ stack' = Append(stack, id)
        /\ section_stack' = Append(section_stack, section)
  /\ idx' = end + 2
  /\ UNCHANGED <<template, pc, err, ret>>
  /\ UNCHANGED renderVars
  /\ UNCHANGED exportVars

\* A closing tag that searches outward for an open section of its name.
ClosesTop_AnyOpen ==
  \E i \in 1..Len(section_stack) : section_stack[i].name = tag_name

\* Line 56: the closing tag names the innermost open section.
ClosesTop ==
  /\ section_stack # <<>>
  /\ section_stack[Len(section_stack)].name = tag_name

\* A closing tag that pops the open section but not the insertion point.
TagClose_NoStackPop ==
  /\ HasTag
  /\ marker = "/"
  /\ ClosesTop
  /\ lists' = WithLeadingText
  /\ section_stack' = SubSeq(section_stack, 1, Len(section_stack) - 1)
  /\ idx' = end + 2
  /\ UNCHANGED <<template, stack, pc, err, ret>>
  /\ UNCHANGED renderVars
  /\ UNCHANGED exportVars

\* Lines 54-59: "/" closes the innermost open section.
TagClose ==
  /\ HasTag
  /\ marker = "/"
  /\ ClosesTop
  /\ lists' = WithLeadingText
  /\ section_stack' = SubSeq(section_stack, 1, Len(section_stack) - 1)
  /\ stack' = SubSeq(stack, 1, Len(stack) - 1)
  /\ idx' = end + 2
  /\ UNCHANGED <<template, pc, err, ret>>
  /\ UNCHANGED renderVars
  /\ UNCHANGED exportVars

\* Lines 56-57: "/" that does not name the innermost open section.
TagMismatch ==
  /\ HasTag
  /\ marker = "/"
  /\ ~ClosesTop
  /\ lists' = WithLeadingText
  /\ idx' = end + 2
  /\ err' = [kind |-> "Mismatched closing tag", detail |-> tag_name]
  /\ pc' = "parse_error"
  /\ UNCHANGED <<template, stack, section_stack, ret>>
  /\ UNCHANGED renderVars
  /\ UNCHANGED exportVars

\* Lines 60-61: any other tag is a variable.
TagVariable ==
  /\ HasTag
  /\ marker \notin {"#", "^", "/"}
  /\ lists' = Append_(WithLeadingText, stack[Len(stack)], VariableToken(tag_content))
  /\ idx' = end + 2
  /\ UNCHANGED <<template, stack, section_stack, pc, err, ret>>
  /\ UNCHANGED renderVars
  /\ UNCHANGED exportVars

\* The while loop is over: its condition failed or line 32 broke out of it.
LoopDone == (pc = "parsing" /\ idx >= Len(template)) \/ pc = "scanned"

\* The open sections listed innermost first.
SectionNames_InnermostFirst ==
  [i \in 1..Len(section_stack) |-> section_stack[Len(section_stack) + 1 - i].name]

\* Line 64: the names of the open sections, in the order of section_stack.
SectionNames == [i \in 1..Len(section_stack) |-> section_stack[i].name]

\* Lines 63-65.
ParseUnclosedSections ==
  /\ LoopDone
  /\ section_stack # <<>>
  /\ err' = [kind |-> "Unclosed sections", detail |-> Join(SectionNames, <<",", " ">>)]
  /\ pc' = "parse_error"
  /\ UNCHANGED <<template, idx, lists, stack, section_stack, ret>>
  /\ UNCHANGED renderVars
  /\ UNCHANGED exportVars

\* Line 67: the tree is the top-level list, lists[1].
ParseReturn ==
  /\ LoopDone
  /\ section_stack = <<>>
  /\ ret' = 1
  /\ pc' = "parsed"
  /\ UNCHANGED <<template, idx, lists, stack, section_stack, err>>
  /\ UNCHANGED renderVars
  /\ UNCHANGED exportVars

-----------------------------------------------------------------------------
(* render and render_tokens *)

\* One activation of render_tokens: the token list it walks, the index ti of
\* the token the for loop of line 108 is at, the number ii of items the for
\* loop of line 121 has taken (0 outside that loop), its context_stack and
\* its rendered list.
Frame(tokens, context_stack) ==
  [tokens |-> tokens, ti |-> 1, ii |-> 0, context_stack |-> context_stack,
   rendered |-> <<>>]

top == frames[Len(frames)]
token == lists[top.tokens][top.ti]
AtToken == pc = "rendering" /\ top.ti <= Len(lists[top.tokens])
AtSection == AtToken /\ token.k = "sec"
value == resolve_name(token.name, top.context_stack)

\* The top activation replaced by f.
WithTop(f) == [frames EXCEPT ![Len(frames)] = f]
\* rendered.append(text) and on to the next token.
Emit(text) ==
  [top EXCEPT !.rendered = Append(@, text), !.ti = @ + 1, !.ii = 0]
\* On to the next token with nothing appended.
Skip == [top EXCEPT !.ti = @ + 1, !.ii = 0]

\* Lines 133-135: render calls render_tokens(tokens, [data]).
RenderStart ==
  /\ pc = "parsed"
  /\ \E i \in 1..Len(ContextList) :
       /\ data' = ContextList[i]
       /\ frames' = <<Frame(ret, <<ContextList[i]>>)>>
  /\ pc' = "rendering"
  /\ UNCHANGED result
  /\ UNCHANGED parseVars
  /\ UNCHANGED exportVars

\* A literal that is taken out of the token list when it is rendered.
RenderLiteral_Consumes ==
  /\ AtToken
  /\ token.k = "lit"
  /\ frames' = WithTop([top EXCEPT !.rendered = Append(@, token.text)])
  /\ lists' = [lists EXCEPT ![top.tokens] =
                 SubSeq(@, 1, top.ti - 1) \o SubSeq(@, top.ti + 1, Len(@))]
  /\ UNCHANGED <<pc, data, result>>
  /\ UNCHANGED <<template, idx, stack, section_stack, err, ret>>
  /\ UNCHANGED exportVars

\* Lines 109-110.
RenderLiteral ==
  /\ AtToken
  /\ token.k = "lit"
  /\ frames' = WithTop(Emit(token.text))
  /\ UNCHANGED <<pc, data, result>>
  /\ UNCHANGED parseVars
  /\ UNCHANGED exportVars

\* A variable rendered without the None test.
RenderVariable_NoNoneTest ==
  /\ AtToken
  /\ token.k = "var"
  /\ frames' = WithTop(Emit(escape(ToStr(value))))
  /\ UNCHANGED <<pc, data, result>>
  /\ UNCHANGED parseVars
  /\ UNCHANGED exportVars

\* Lines 111-113.
RenderVariable ==
  /\ AtToken
  /\ token.k = "var"
  /\ frames' = WithTop(Emit(IF value.t = "null" THEN <<>> ELSE escape(ToStr(value))))
  /\ UNCHANGED <<pc, data, result>>
  /\ UNCHANGED parseVars
  /\ UNCHANGED exportVars

\* An inverted section that pushes the resolved value as a context.
RenderInverted_Pushes ==
  /\ AtSection
  /\ token.inverted
  /\ frames' = IF ~is_truthy(value)
               THEN Append(frames, Frame(token.tokens, Append(top.context_stack, value)))
               ELSE WithTop(Skip)
  /\ UNCHANGED <<pc, data, result>>
  /\ UNCHANGED parseVars
  /\ UNCHANGED exportVars

\* Lines 116-118: the children are rendered with a copy of the stack.
RenderInverted ==
  /\ AtSection
  /\ token.inverted
  /\ frames' = IF ~is_truthy(value)
               THEN Append(frames, Frame(token.tokens, top.context_stack))
               ELSE WithTop(Skip)
  /\ UNCHANGED <<pc, data, result>>
  /\ UNCHANGED parseVars
  /\ UNCHANGED exportVars

\* A list section that takes the items last to first.
RenderSectionList_Backwards ==
  /\ AtSection
  /\ ~token.inverted
  /\ value.t = "list"
  /\ frames' = IF top.ii < Len(value.v)
               THEN Append(WithTop([top EXCEPT !.ii = @ + 1]),
                           Frame(token.tokens,
                                 Append(top.context_stack, value.v[Len(value.v) - top.ii])))
               ELSE WithTop(Skip)
  /\ UNCHANGED <<pc, data, result>>
  /\ UNCHANGED parseVars
  /\ UNCHANGED exportVars

\* Lines 120-122: the next item of the list, or the end of the loop.
RenderSectionList ==
  /\ AtSection
  /\ ~token.inverted
  /\ value.t = "list"
  /\ frames' = IF top.ii < Len(value.v)
               THEN Append(WithTop([top EXCEPT !.ii = @ + 1]),
                           Frame(token.tokens,
                                 Append(top.context_stack, value.v[top.ii + 1])))
               ELSE WithTop(Skip)
  /\ UNCHANGED <<pc, data, result>>
  /\ UNCHANGED parseVars
  /\ UNCHANGED exportVars

\* A mapping section that is skipped when the mapping is empty.
RenderSectionDict_TruthyOnly ==
  /\ AtSection
  /\ ~token.inverted
  /\ value.t = "dict"
  /\ frames' = IF is_truthy(value)
               THEN Append(frames, Frame(token.tokens, Append(top.context_stack, value)))
               ELSE WithTop(Skip)
  /\ UNCHANGED <<pc, data, result>>
  /\ UNCHANGED parseVars
  /\ UNCHANGED exportVars

\* Lines 123-124.
RenderSectionDict ==
  /\ AtSection
  /\ ~token.inverted
  /\ value.t = "dict"
  /\ frames' = Append(frames, Frame(token.tokens, Append(top.context_stack, value)))
  /\ UNCHANGED <<pc, data, result>>
  /\ UNCHANGED parseVars
  /\ UNCHANGED exportVars

\* A scalar section that renders its children without pushing the value.
RenderSectionScalar_NoPush ==
  /\ AtSection
  /\ ~token.inverted
  /\ value.t \notin {"list", "dict"}
  /\ frames' = IF is_truthy(value)
               THEN Append(frames, Frame(token.tokens, top.context_stack))
               ELSE WithTop(Skip)
  /\ UNCHANGED <<pc, data, result>>
  /\ UNCHANGED parseVars
  /\ UNCHANGED exportVars

\* Lines 125-126.
RenderSectionScalar ==
  /\ AtSection
  /\ ~token.inverted
  /\ value.t \notin {"list", "dict"}
  /\ frames' = IF is_truthy(value)
               THEN Append(frames, Frame(token.tokens, Append(top.context_stack, value)))
               ELSE WithTop(Skip)
  /\ UNCHANGED <<pc, data, result>>
  /\ UNCHANGED parseVars
  /\ UNCHANGED exportVars

\* A return that leaves the callee's context stack with the caller, as a push
\* on a shared stack without the matching pop would.
RenderReturn_LeaksContext ==
  /\ pc = "rendering"
  /\ top.ti > Len(lists[top.tokens])
  /\ Len(frames) > 1
  /\ LET caller == frames[Len(frames) - 1]
         text == Concat(top.rendered)
     IN frames' = Append(SubSeq(frames, 1, Len(frames) - 2),
                         IF caller.ii > 0
                         THEN [caller EXCEPT !.rendered = Append(@, text),
                                             !.context_stack = top.context_stack]
                         ELSE [caller EXCEPT !.rendered = Append(@, text),
                                             !.context_stack = top.context_stack,
                                             !.ti = @ + 1])
  /\ UNCHANGED <<pc, data, result>>
  /\ UNCHANGED parseVars
  /\ UNCHANGED exportVars

\* Line 130 of a nested activation: the joined text is appended to the
\* caller's rendered list; the caller stays on its token inside the loop of
\* line 121 and moves on otherwise.
RenderReturn ==
  /\ pc = "rendering"
  /\ top.ti > Len(lists[top.tokens])
  /\ Len(frames) > 1
  /\ LET caller == frames[Len(frames) - 1]
         text == Concat(top.rendered)
     IN frames' = Append(SubSeq(frames, 1, Len(frames) - 2),
                         IF caller.ii > 0
                         THEN [caller EXCEPT !.rendered = Append(@, text)]
                         ELSE [caller EXCEPT !.rendered = Append(@, text),
                                             !.ti = @ + 1])
  /\ UNCHANGED <<pc, data, result>>
  /\ UNCHANGED parseVars
  /\ UNCHANGED exportVars

\* Line 130 of the outermost activation: render returns the text.
RenderDone ==
  /\ pc = "rendering"
  /\ top.ti > Len(lists[top.tokens])
  /\ Len(frames) = 1
  /\ result' = Concat(top.rendered)
  /\ frames' = <<>>
  /\ pc' = "rendered"
  /\ UNCHANGED data
  /\ UNCHANGED parseVars
  /\ UNCHANGED exportVars

Next ==
  \/ ScanTail
  \/ ScanUnclosedTag
  \/ TagEmpty
  \/ TagOpen
  \/ TagClose
  \/ TagMismatch
  \/ TagVariable
  \/ ParseUnclosedSections
  \/ ParseReturn
  \/ RenderStart
  \/ RenderLiteral
  \/ RenderVariable
  \/ RenderInverted
  \/ RenderSectionList
  \/ RenderSectionDict
  \/ RenderSectionScalar
  \/ RenderReturn
  \/ RenderDone

Spec == Init /\ [][Next]_vars

-----------------------------------------------------------------------------
(* download-workato-manifest.py: main, from the loop over the selected     *)
(* projects on.  `step` is main's position; `clock` is time.time().        *)

ExportInit ==
  /\ TemplateIdle
  /\ \E yes \in BOOLEAN, i \in 0..MaxPollInterval, t \in 0..MaxPollTimeout,
        b \in 1..Len(UserBases) :
       args = [yes |-> yes, poll_interval |-> i, poll_timeout |-> t, base_url |-> UserBases[b]]
  /\ selected \in 1..MaxProjects
  /\ project = 1
  /\ step = "payload"
  /\ candidate = 0
  /\ working_base = <<>>
  /\ clock = 0
  /\ deadline = 0
  /\ last = <<>>
  /\ fetches = 0
  /\ proj = NewProject
  /\ request = NoRequest

candidates == fallback_base_urls(args.base_url)

\* Lines 458-467 and 472-474: the payload is built and the first candidate
\* base is taken.
BuildPayload ==
  /\ step = "payload"
  /\ step' = "create"
  /\ candidate' = 1
  /\ working_base' = <<>>
  /\ UNCHANGED <<args, selected, project, proj, request>>
  /\ UNCHANGED waitVars
  /\ UNCHANGED templateVars

\* Lines 468-470: building the payload raised; the project is skipped.
BuildPayloadFails ==
  /\ step = "payload"
  /\ step' = "next"
  /\ UNCHANGED <<args, selected, project, candidate, working_base, proj, request>>
  /\ UNCHANGED waitVars
  /\ UNCHANGED templateVars

\* Lines 476-478 and 491-492: the manifest is created on the candidate base.
CreateManifest ==
  /\ step = "create"
  /\ candidate <= Len(candidates)
  /\ request' = Request("POST", "export_manifests", candidates[candidate])
  /\ working_base' = candidates[candidate]
  /\ proj' = [proj EXCEPT !.manifest = TRUE]
  /\ step' = "export"
  /\ UNCHANGED <<args, selected, project, candidate>>
  /\ UNCHANGED waitVars
  /\ UNCHANGED templateVars

\* Lines 479-482: HTTP 404 from the candidate base; the next one is tried.
CreateManifestNotFound ==
  /\ step = "create"
  /\ candidate <= Len(candidates)
  /\ request' = Request("POST", "export_manifests", candidates[candidate])
  /\ candidate' = candidate + 1
  /\ UNCHANGED <<args, selected, project, step, working_base, proj>>
  /\ UNCHANGED waitVars
  /\ UNCHANGED templateVars

\* Lines 483 and 331-332: another HTTP error is raised again, and a response
\* without "id" raises RuntimeError; neither is caught in main.
CreateManifestRaises ==
  /\ step = "create"
  /\ candidate <= Len(candidates)
  /\ request' = Request("POST", "export_manifests", candidates[candidate])
  /\ step' = "crashed"
  /\ UNCHANGED <<args, selected, project, candidate, working_base, proj>>
  /\ UNCHANGED waitVars
  /\ UNCHANGED templateVars

\* Lines 484-490: every candidate base answered 404.
NoBaseWorked ==
  /\ step = "create"
  /\ candidate > Len(candidates)
  /\ step' = "next"
  /\ UNCHANGED <<args, selected, project, candidate, working_base, proj, request>>
  /\ UNCHANGED waitVars
  /\ UNCHANGED templateVars

\* Lines 495-499: the export is started and answers with a package id.
ExportPackage ==
  /\ step = "export"
  /\ request' = Request("POST", "packages/export", working_base)
  /\ proj' = [proj EXCEPT !.package = TRUE]
  /\ step' = "wait"
  /\ UNCHANGED <<args, selected, project, candidate, working_base>>
  /\ UNCHANGED waitVars
  /\ UNCHANGED templateVars

\* Lines 495-498 and 519-521: the export request fails or its response has
\* no id; the rest of the iteration is skipped.
ExportPackageFails ==
  /\ step = "export"
  /\ request' = Request("POST", "packages/export", working_base)
  /\ step' = "next"
  /\ UNCHANGED <<args, selected, project, candidate, working_base, proj>>
  /\ UNCHANGED waitVars
  /\ UNCHANGED templateVars

\* Lines 357-358: the deadline is set and the package fetched a first time;
\* a failing request leaves through lines 519-521.
WaitStart ==
  /\ step = "wait"
  /\ deadline' = clock + args.poll_timeout
  /\ request' = Request("GET", "packages", working_base)
  /\ fetches' = 1
  /\ \E d \in 0..MaxLatency :
       /\ clock' = clock + d
       /\ \/ \E s \in Statuses : last' = s /\ step' = "test"
          \/ last' = last /\ step' = "next"
  /\ UNCHANGED <<args, selected, project, candidate, working_base, proj>>
  /\ UNCHANGED templateVars

\* Lines 359-362: before the deadline, a finished package is returned.
WaitReturn ==
  /\ step = "test"
  /\ clock < deadline
  /\ Lower(last) \in Finished
  /\ proj' = [proj EXCEPT !.final = TRUE]
  /\ step' = "status"
  /\ UNCHANGED <<args, selected, project, candidate, working_base, request>>
  /\ UNCHANGED waitVars
  /\ UNCHANGED templateVars

\* Lines 359-364: before the deadline, an unfinished package: sleep, then
\* fetch again; a failing request leaves through lines 519-521.
WaitPoll ==
  /\ step = "test"
  /\ clock < deadline
  /\ Lower(last) \notin Finished
  /\ fetches < MaxPollTimeout + 3
  /\ request' = Request("GET", "packages", working_base)
  /\ fetches' = fetches + 1
  /\ \E d \in 0..MaxLatency :
       /\ clock' = clock + SleepTime(args.poll_interval) + d
       /\ \/ \E s \in Statuses : last' = s /\ step' = "test"
          \/ last' = last /\ step' = "next"
  /\ UNCHANGED <<args, selected, project, candidate, working_base, proj, deadline>>
  /\ UNCHANGED templateVars

\* Lines 359, 365 and 519-521: at or after the deadline TimeoutError is
\* raised, whatever `last` is.
WaitTimeout ==
  /\ step = "test"
  /\ ~(clock < deadline)
  /\ proj' = [proj EXCEPT !.timed_out = TRUE]
  /\ step' = "next"
  /\ UNCHANGED <<args, selected, project, candidate, working_base, request>>
  /\ UNCHANGED waitVars
  /\ UNCHANGED templateVars

\* A status test that lets every package the wait returned go on.
StatusCheck_AnyFinished ==
  /\ step = "status"
  /\ step' = "download"
  /\ UNCHANGED <<args, selected, project, candidate, working_base, proj, request>>
  /\ UNCHANGED waitVars
  /\ UNCHANGED templateVars

\* Lines 507-510 and 519-521: only the status "completed" goes on.
StatusCheck ==
  /\ step = "status"
  /\ step' = IF last # StatusCompleted THEN "next" ELSE "download"
  /\ UNCHANGED <<args, selected, project, candidate, working_base, proj, request>>
  /\ UNCHANGED waitVars
  /\ UNCHANGED templateVars

\* Lines 511-518, 375-408 and 519-521: the zip is fetched, once more after
\* HTTP 400 or 403; a package without id, another error or a failing second
\* fetch skips the rest of the iteration.
DownloadPackageZip ==
  /\ step = "download"
  /\ \E has_id \in BOOLEAN, first \in {"ok", "retry", "error"}, second \in {"ok", "error"} :
       LET done == has_id /\ (first = "ok" \/ (first = "retry" /\ second = "ok"))
       IN /\ request' = IF has_id THEN Request("GET", "packages/download", working_base)
                        ELSE request
          /\ proj' = [proj EXCEPT !.downloaded = done]
          /\ step' = IF done THEN "package_view" ELSE "next"
  /\ UNCHANGED <<args, selected, project, candidate, working_base>>
  /\ UNCHANGED waitVars
  /\ UNCHANGED templateVars

\* Lines 525-527 and 535-536: the package is fetched and shown; a failing
\* request goes on to the manifest.
PackageView ==
  /\ step = "package_view"
  /\ request' = Request("GET", "packages", working_base)
  /\ \E ok \in BOOLEAN :
       /\ proj' = [proj EXCEPT !.pkg_viewed = ok]
       /\ step' = IF ok THEN "package_prompt" ELSE "manifest_view"
  /\ UNCHANGED <<args, selected, project, candidate, working_base>>
  /\ UNCHANGED waitVars
  /\ UNCHANGED templateVars

\* Lines 528-532: prompt_yes_no for the package.
PackagePrompt ==
  /\ step = "package_prompt"
  /\ \E answer \in Answers :
       /\ proj' = [proj EXCEPT !.pkg_prompted = ReadsInput(args.yes),
                               !.pkg_answer = IF ReadsInput(args.yes) THEN answer ELSE <<>>]
       /\ step' = IF prompt_yes_no(answer, TRUE, args.yes)
                  THEN "package_delete" ELSE "manifest_view"
  /\ UNCHANGED <<args, selected, project, candidate, working_base, request>>
  /\ UNCHANGED waitVars
  /\ UNCHANGED templateVars

\* Lines 437 and 535-536: input() raises at end of input.
PackagePromptFails ==
  /\ step = "package_prompt"
  /\ ReadsInput(args.yes)
  /\ proj' = [proj EXCEPT !.pkg_prompted = TRUE]
  /\ step' = "manifest_view"
  /\ UNCHANGED <<args, selected, project, candidate, working_base, request>>
  /\ UNCHANGED waitVars
  /\ UNCHANGED templateVars

\* Lines 533-536: the DELETE of the package, failing or not.
PackageDelete ==
  /\ step = "package_delete"
  /\ request' = Request("DELETE", "packages", working_base)
  /\ proj' = [proj EXCEPT !.pkg_delete = TRUE]
  /\ step' = "manifest_view"
  /\ UNCHANGED <<args, selected, project, candidate, working_base>>
  /\ UNCHANGED waitVars
  /\ UNCHANGED templateVars

\* Lines 540-542 and 550-551: the manifest is fetched and shown; a failing
\* request ends the iteration.
ManifestView ==
  /\ step = "manifest_view"
  /\ request' = Request("GET", "export_manifests", working_base)
  /\ \E ok \in BOOLEAN :
       /\ proj' = [proj EXCEPT !.man_viewed = ok]
       /\ step' = IF ok THEN "manifest_prompt" ELSE "next"
  /\ UNCHANGED <<args, selected, project, candidate, working_base>>
  /\ UNCHANGED waitVars
  /\ UNCHANGED templateVars

\* Lines 543-547: prompt_yes_no for the manifest.
ManifestPrompt ==
  /\ step = "manifest_prompt"
  /\ \E answer \in Answers :
       /\ proj' = [proj EXCEPT !.man_prompted = ReadsInput(args.yes),
                               !.man_answer = IF ReadsInput(args.yes) THEN answer ELSE <<>>]
       /\ step' = IF prompt_yes_no(answer, TRUE, args.yes)
                  THEN "manifest_delete" ELSE "next"
  /\ UNCHANGED <<args, selected, project, candidate, working_base, request>>
  /\ UNCHANGED waitVars
  /\ UNCHANGED templateVars

\* Lines 437 and 550-551: input() raises at end of input.
ManifestPromptFails ==
  /\ step = "manifest_prompt"
  /\ ReadsInput(args.yes)
  /\ proj' = [proj EXCEPT !.man_prompted = TRUE]
  /\ step' = "next"
  /\ UNCHANGED <<args, selected, project, candidate, working_base, request>>
  /\ UNCHANGED waitVars
  /\ UNCHANGED templateVars

\* Lines 548-551: the DELETE of the manifest, failing or not.
ManifestDelete ==
  /\ step = "manifest_delete"
  /\ request' = Request("DELETE", "export_manifests", working_base)
  /\ proj' = [proj EXCEPT !.man_delete = TRUE]
  /\ step' = "next"
  /\ UNCHANGED <<args, selected, project, candidate, working_base>>
  /\ UNCHANGED waitVars
  /\ UNCHANGED templateVars

\* Line 456: the loop takes the next selected project.
NextProject ==
  /\ step = "next"
  /\ project < selected
  /\ project' = project + 1
  /\ step' = "payload"
  /\ candidate' = 0
  /\ working_base' = <<>>
  /\ clock' = 0
  /\ deadline' = 0
  /\ last' = <<>>
  /\ fetches' = 0
  /\ proj' = NewProject
  /\ request' = NoRequest
  /\ UNCHANGED <<args, selected>>
  /\ UNCHANGED templateVars

\* Line 456: no project is left; main returns.
MainReturn ==
  /\ step = "next"
  /\ project = selected
  /\ step' = "done"
  /\ UNCHANGED <<args, selected, project, candidate, working_base, proj, request>>
  /\ UNCHANGED waitVars
  /\ UNCHANGED templateVars

ExportNext ==
  \/ BuildPayload
  \/ BuildPayloadFails
  \/ CreateManifest
  \/ CreateManifestNotFound
  \/ CreateManifestRaises
  \/ NoBaseWorked
  \/ ExportPackage
  \/ ExportPackageFails
  \/ WaitStart
  \/ WaitReturn
  \/ WaitPoll
  \/ WaitTimeout
  \/ StatusCheck
  \/ DownloadPackageZip
  \/ PackageView
  \/ PackagePrompt
  \/ PackagePromptFails
  \/ PackageDelete
  \/ ManifestView
  \/ ManifestPrompt
  \/ ManifestPromptFails
  \/ ManifestDelete
  \/ NextProject
  \/ MainReturn

ExportSpec == ExportInit /\ [][ExportNext]_vars

-----------------------------------------------------------------------------
(* Properties of parse_template *)

\* The scan stands at a tag "{{/name}}": the next "{{" has a "}}" after it
\* and the trimmed text between them starts with "/".
AtClosingTag(name) ==
  /\ pc = "parsing" /\ idx < Len(template)
  /\ \E s \in idx..Len(template), e \in idx..Len(template) :
       /\ Slice(template, s, s + 2) = OPEN
       /\ \A i \in idx..(s - 1) : Slice(template, i, i + 2) # OPEN
       /\ e >= s /\ Slice(template, e, e + 2) = CLOSE
       /\ \A i \in s..(e - 1) : Slice(template, i, i + 2) # CLOSE
       /\ LET content == Strip(Slice(template, s + 2, e))
          IN /\ content # <<>>
             /\ content[1] = "/"
             /\ name = Strip(Tail(content))

\* C1: a closing tag whose name is not the name of the innermost open
\* section (none open, or only an outer one of that name) ends the parse at
\* once with "Mismatched closing tag: <name>"; no tree is returned then or
\* later, and no section is closed.
C1_MismatchFailsAtOnce ==
  [][ /\ pc # "parse_error"
      /\ \A name \in {<<"a">>, <<"b">>} :
           ( /\ AtClosingTag(name)
             /\ \/ section_stack = <<>>
                \/ section_stack[Len(section_stack)].name # name )
           => /\ pc' = "parse_error"
              /\ err' = [kind |-> "Mismatched closing tag", detail |-> name]
              /\ ret' = 0
              /\ section_stack' = section_stack ]_vars

\* C1 witness: "{{/a}}" was met while "b" was the innermost open section and
\* "a" an outer one.
C1_Witness ==
  /\ pc = "parse_error"
  /\ err = [kind |-> "Mismatched closing tag", detail |-> <<"a">>]
  /\ Len(section_stack) = 2
  /\ section_stack[1].name = <<"a">>
  /\ section_stack[2].name = <<"b">>
  /\ ret = 0

\* C2: when the scan is over with sections still open the parse fails with
\* "Unclosed sections: " followed by the names of the open sections, one per
\* open section, outermost first; a tree is returned only with no section
\* open.
C2_UnclosedSectionsInOrder ==
  /\ [](ret # 0 => section_stack = <<>>)
  /\ [](pc = "parse_error" /\ err.kind = "Unclosed sections"
          => /\ ret = 0
             /\ section_stack # <<>>
             /\ err.detail = Join([i \in 1..Len(section_stack) |-> section_stack[i].name],
                                  <<",", " ">>)
             /\ (template = OpenA \o OpenB => err.detail = <<"a", ",", " ", "b">>)
             /\ (template = OpenB \o OpenA => err.detail = <<"b", ",", " ", "a">>))
  /\ [][ ( /\ \/ pc = "parsing" /\ idx >= Len(template)
              \/ pc = "scanned"
           /\ section_stack # <<>> )
         => pc' = "parse_error" /\ err'.kind = "Unclosed sections" ]_vars

\* C2 witness: the scan ended with "a" and then "b" open.
C2_Witness ==
  /\ pc = "parse_error"
  /\ template = OpenA \o OpenB \o TextX
  /\ err = [kind |-> "Unclosed sections", detail |-> <<"a", ",", " ", "b">>]

\* The scan stands before a "{{" that has no "}}" after it.
AtUnclosedTag ==
  /\ pc = "parsing" /\ idx < Len(template)
  /\ \E s \in idx..Len(template) :
       /\ Slice(template, s, s + 2) = OPEN
       /\ \A i \in idx..(s - 1) : Slice(template, i, i + 2) # OPEN
       /\ \A e \in s..Len(template) : Slice(template, e, e + 2) # CLOSE

\* C3: a "{{" with no "}}" after it ends the parse with "Unclosed tag in
\* template", whatever was collected and whatever sections are open; no tree
\* is returned.
C3_UnclosedTagFails ==
  /\ [](pc = "parse_error" => ret = 0 /\ frames = <<>> /\ result = <<>>)
  /\ [][ AtUnclosedTag
         => /\ pc' = "parse_error"
            /\ err' = [kind |-> "Unclosed tag in template", detail |-> <<>>]
            /\ ret' = 0 ]_vars

\* C3 witness: the tag was left unclosed after a literal and inside an open
\* section.
C3_Witness ==
  /\ pc = "parse_error"
  /\ err.kind = "Unclosed tag in template"
  /\ section_stack # <<>>
  /\ lists[1] # <<>>
  /\ lists[1][1] = Literal(<<"x">>)
  /\ ret = 0

-----------------------------------------------------------------------------
(* Properties of render_tokens *)

\* The token an activation is at.
FrameToken(f) == lists[f.tokens][f.ti]
\* The value the name of that token resolves to in the activation.
FrameValue(f) == resolve_name(FrameToken(f).name, f.context_stack)
\* The value of key "a" of the root context, None when there is none.
RootA == IF data.t = "dict" /\ HasKey(data, A) THEN GetKey(data, A) ELSE Null
RootB == IF data.t = "dict" /\ HasKey(data, B) THEN GetKey(data, B) ELSE Null
Rendered(t) == pc = "rendered" /\ template = t
\* The text a variable contributes for a value.
Shown(v) == IF v.t = "null" THEN <<>> ELSE escape(ToStr(v))

\* The activation below the top one has called the top one for the children
\* of the section it is at, with context stack cs.
CalledWith(j, cs) ==
  /\ frames[j + 1].tokens = FrameToken(frames[j]).tokens
  /\ frames[j + 1].context_stack = cs

\* The step enters the children of the section the top activation is at,
\* with context stack cs and nothing rendered yet.
Enters(cs) ==
  /\ Len(frames') = Len(frames) + 1
  /\ frames'[Len(frames')] =
       [tokens |-> token.tokens, ti |-> 1, ii |-> 0, context_stack |-> cs,
        rendered |-> <<>>]
  /\ frames'[Len(frames)].rendered = top.rendered
  /\ frames'[Len(frames)].ti = top.ti

\* The step leaves the section the top activation is at with nothing appended.
Passes ==
  /\ Len(frames') = Len(frames)
  /\ frames'[Len(frames)].ti = top.ti + 1
  /\ frames'[Len(frames)].rendered = top.rendered
  /\ frames'[Len(frames)].context_stack = top.context_stack

\* The step returns from the children of a section that is rendered once:
\* the caller gets one more piece and moves to its next token.
ReturnsOnce ==
  /\ Len(frames') = Len(frames) - 1
  /\ frames'[Len(frames')].ti = frames[Len(frames')].ti + 1
  /\ Len(frames'[Len(frames')].rendered) = Len(frames[Len(frames')].rendered) + 1

\* C4: render_tokens cannot raise and cannot stop short: every activation
\* has a non-empty context stack (line 84) and only tokens of the three known
\* kinds (line 128), the top activation is at the end of its list or at a
\* token one of the branches of lines 109-126 takes, the result is a text,
\* and a variable that resolves to None (not found, or null) contributes the
\* empty text.
C4_RenderIsTotal ==
  /\ [](pc = "rendering"
          => /\ frames # <<>>
             /\ \A j \in 1..Len(frames) :
                  /\ frames[j].context_stack # <<>>
                  /\ \A i \in 1..Len(lists[frames[j].tokens]) :
                       lists[frames[j].tokens][i].k \in {"lit", "var", "sec"}
             /\ top.ti \in 1..(Len(lists[top.tokens]) + 1)
             /\ (top.ti <= Len(lists[top.tokens]) /\ token.k = "sec")
                  => /\ token.tokens \in 1..Len(lists)
                     /\ value.t \in {"null", "bool", "num", "str", "list", "dict"}
                     /\ (value.t = "list" /\ ~token.inverted
                           => top.ii \in 0..Len(value.v)))
  /\ [](pc = "parsed" => ret = 1 /\ frames = <<>>)
  /\ [](pc = "rendered" => result \in Seq({"{", "}", "x", "&", "l", "t", "g", ";", "b",
                                            "#", "2", "7", "'", ":", " ", ",", "[", "]",
                                            "a", "s", "e", "r", "u", "T", "F", "N", "o",
                                            "n", "0", "1", "3", "5", "9", "<", "q",
                                            "m", "p", "\\"}))
  /\ [][ (AtToken /\ token.k = "var"
            /\ resolve_name(token.name, top.context_stack) = Null)
         => /\ frames'[Len(frames)].rendered = Append(top.rendered, <<>>)
            /\ pc' = "rendering" ]_vars
  /\ [](Rendered(VarB) /\ RootB = Null => result = <<>>)

\* C4 witness: "{{b}}" rendered with the empty mapping.
C4_Witness == Rendered(VarB) /\ data = Dict(<<>>) /\ result = <<>>

\* The truthiness policy as claimed: every number is true.
ClaimedTruth(v) ==
  IF v.t = "null" THEN FALSE
  ELSE IF v.t = "bool" THEN v.v
  ELSE IF v.t \in {"list", "dict", "str"} THEN v.v # <<>>
  ELSE TRUE

\* The truthiness policy of the code: a number is true unless it is zero.
CodeTruth(v) ==
  IF v.t = "null" THEN FALSE
  ELSE IF v.t = "bool" THEN v.v
  ELSE IF v.t \in {"list", "dict", "str"} THEN v.v # <<>>
  ELSE v.v # 0

\* C5 as claimed: null is false, a boolean is itself, an empty sequence,
\* mapping or text is false, everything else including zero is true; so
\* "{{#a}}x{{/a}}" renders "x" and "{{^a}}x{{/a}}" renders "" when a is 0.
C5_ZeroIsTrue ==
  /\ (Rendered(OpenA \o TextX \o CloseA) /\ RootA.t \notin {"list", "dict"}
        => result = IF ClaimedTruth(RootA) THEN <<"x">> ELSE <<>>)
  /\ (Rendered(InvertedA \o TextX \o CloseA)
        => result = IF ClaimedTruth(RootA) THEN <<>> ELSE <<"x">>)

\* C5 amended: as claimed except that numeric zero is false: "{{#a}}x{{/a}}"
\* renders "" and "{{^a}}x{{/a}}" renders "x" when a is 0.
C5_ZeroIsFalse ==
  /\ (Rendered(OpenA \o TextX \o CloseA) /\ RootA.t \notin {"list", "dict"}
        => result = IF CodeTruth(RootA) THEN <<"x">> ELSE <<>>)
  /\ (Rendered(InvertedA \o TextX \o CloseA)
        => result = IF CodeTruth(RootA) THEN <<>> ELSE <<"x">>)
  /\ (pc = "rendering" /\ top.ti <= Len(lists[top.tokens]) /\ token.k = "sec"
        => is_truthy(value) = CodeTruth(value))

\* C5 witness: the inverted section over a = 0 was rendered.
C5_Witness ==
  /\ Rendered(InvertedA \o TextX \o CloseA)
  /\ RootA = Num(0)
  /\ result = <<"x">>

RECURSIVE PathValue(_, _)
\* The value at the end of the whole segment path from v: <<value>>, or <<>>
\* when some segment is missing.
PathValue(v, parts) ==
  IF parts = <<>> THEN <<v>>
  ELSE IF v.t # "dict" THEN <<>>
  ELSE LET at == {i \in 1..Len(v.v) : v.v[i].k = parts[1]}
       IN IF at = {} THEN <<>>
          ELSE PathValue(v.v[CHOOSE i \in at : TRUE].v, Tail(parts))

\* The value of a dotted name: that of the innermost context from which the
\* whole path resolves, None when there is no such context.
InnermostWhole(name, cs) ==
  LET parts == Split(name, ".")
      whole == {i \in 1..Len(cs) : PathValue(cs[i], parts) # <<>>}
  IN IF whole = {} THEN Null
     ELSE PathValue(cs[CHOOSE i \in whole : \A j \in whole : i >= j], parts)[1]

\* C6: a name other than "." resolves to the value found from the innermost
\* context from which every segment resolves; a context holding only a
\* prefix of the path does not block the outer ones, a context holding the
\* whole path shadows them, and the result is None when none holds it.
C6_InnermostWholePathWins ==
  /\ (pc = "rendering" /\ top.ti <= Len(lists[top.tokens])
        /\ token.k \in {"var", "sec"} /\ token.name # <<".">>
        => value = InnermostWhole(token.name, top.context_stack))
  /\ (Rendered(OpenA \o VarAB \o CloseA) /\ data = ContextList[13]
        => result = <<"2">>)
  /\ (Rendered(OpenA \o VarAB \o CloseA) /\ data = ContextList[14]
        => result = <<"1">>)
  /\ (Rendered(OpenA \o VarB \o CloseA) /\ data = ContextList[13]
        => result = <<"2">>)
  /\ (Rendered(OpenA \o VarAB \o CloseA) /\ data = ContextList[8]
        => result = <<>>)

\* C6 witness: inside "{{#a}}" the context a = {a: 0, b: 2} holds "a" but
\* not "a.b"; the root holds a.b = 2.
C6_Witness ==
  /\ Rendered(OpenA \o VarAB \o CloseA)
  /\ data = ContextList[13]
  /\ result = <<"2">>

\* C7: a non-inverted section over a sequence renders its children once per
\* item, in order, the item being the innermost context of its iteration;
\* the pieces are joined in that order and an empty sequence gives "".
C7_ListSectionIterates ==
  /\ [](pc = "rendering"
          => \A j \in 1..(Len(frames) - 1) :
               LET f == frames[j]
               IN (~FrameToken(f).inverted /\ FrameValue(f).t = "list")
                  => /\ f.ii \in 1..Len(FrameValue(f).v)
                     /\ CalledWith(j, Append(f.context_stack, FrameValue(f).v[f.ii])))
  /\ [][ (AtSection /\ ~token.inverted /\ value.t = "list")
         => IF top.ii < Len(value.v)
            THEN /\ Enters(Append(top.context_stack, value.v[top.ii + 1]))
                 /\ frames'[Len(frames)].ii = top.ii + 1
            ELSE Passes ]_vars
  /\ [][ (pc = "rendering" /\ Len(frames) > 1 /\ Len(frames') = Len(frames) - 1
            /\ frames[Len(frames) - 1].ii > 0)
         => /\ frames'[Len(frames')].ti = frames[Len(frames')].ti
            /\ frames'[Len(frames')].ii = frames[Len(frames')].ii
            /\ frames'[Len(frames')].rendered =
                 Append(frames[Len(frames')].rendered, Concat(top.rendered)) ]_vars
  /\ [](Rendered(OpenA \o TextX \o CloseA) /\ RootA.t = "list"
          => result = [i \in 1..Len(RootA.v) |-> "x"])
  /\ [](Rendered(OpenA \o VarDot \o CloseA) /\ RootA.t = "list"
          => result = Concat([i \in 1..Len(RootA.v) |-> Shown(RootA.v[i])]))
  /\ [](Rendered(OpenA \o VarDot \o CloseA) /\ data = ContextList[10]
          => result = <<"1", "2", "3">>)
  /\ [](Rendered(OpenA \o TextX \o CloseA) /\ data = ContextList[10]
          => result = <<"x", "x", "x">>)
  /\ [](Rendered(OpenA \o VarB \o CloseA) /\ data = ContextList[11]
          => result = <<"1", "9">>)

\* C7 witness: "{{#a}}{{.}}{{/a}}" rendered with a = [1, 2, 3].
C7_Witness ==
  /\ Rendered(OpenA \o VarDot \o CloseA)
  /\ RootA = List(<<Num(1), Num(2), Num(3)>>)
  /\ result = <<"1", "2", "3">>

\* C8: a non-inverted section over a mapping, empty or not, renders its
\* children exactly once with the mapping as the innermost context.
C8_DictSectionScopes ==
  /\ [](pc = "rendering"
          => \A j \in 1..(Len(frames) - 1) :
               LET f == frames[j]
               IN (~FrameToken(f).inverted /\ FrameValue(f).t = "dict")
                  => /\ f.ii = 0
                     /\ CalledWith(j, Append(f.context_stack, FrameValue(f))))
  /\ [][ (AtSection /\ ~token.inverted /\ value.t = "dict")
         => Enters(Append(top.context_stack, value)) ]_vars
  /\ [][ (pc = "rendering" /\ Len(frames) > 1 /\ Len(frames') = Len(frames) - 1
            /\ ~FrameToken(frames[Len(frames) - 1]).inverted
            /\ FrameValue(frames[Len(frames) - 1]).t = "dict")
         => ReturnsOnce ]_vars
  /\ [](Rendered(OpenA \o TextX \o CloseA) /\ RootA.t = "dict" => result = <<"x">>)
  /\ [](Rendered(OpenA \o VarB \o CloseA) /\ data = ContextList[13] => result = <<"2">>)
  /\ [](Rendered(OpenA \o VarB \o CloseA) /\ data = ContextList[12] => result = <<"1">>)

\* C8 witness: "{{#a}}x{{/a}}" rendered with a the empty mapping.
C8_Witness ==
  /\ Rendered(OpenA \o TextX \o CloseA)
  /\ RootA = Dict(<<>>)
  /\ result = <<"x">>

\* C9: a non-inverted section over a value that is neither sequence nor
\* mapping renders its children exactly once, with the value as innermost
\* context, when the value is truthy, and renders nothing when it is falsy
\* or not found; inside, "." is the value and other names fall through.
C9_ScalarSectionGates ==
  /\ [](pc = "rendering"
          => \A j \in 1..(Len(frames) - 1) :
               LET f == frames[j]
               IN (~FrameToken(f).inverted /\ FrameValue(f).t \notin {"list", "dict"})
                  => /\ f.ii = 0
                     /\ CodeTruth(FrameValue(f))
                     /\ CalledWith(j, Append(f.context_stack, FrameValue(f))))
  /\ [][ (AtSection /\ ~token.inverted /\ value.t \notin {"list", "dict"})
         => IF CodeTruth(value)
            THEN Enters(Append(top.context_stack, value))
            ELSE Passes ]_vars
  /\ [][ (pc = "rendering" /\ Len(frames) > 1 /\ Len(frames') = Len(frames) - 1
            /\ ~FrameToken(frames[Len(frames) - 1]).inverted
            /\ FrameValue(frames[Len(frames) - 1]).t \notin {"list", "dict"})
         => ReturnsOnce ]_vars
  /\ [](Rendered(OpenA \o VarDot \o CloseA) /\ RootA.t \notin {"list", "dict"}
          => result = IF CodeTruth(RootA) THEN Shown(RootA) ELSE <<>>)
  /\ [](Rendered(OpenA \o VarB \o CloseA) /\ RootA.t \notin {"list", "dict"}
          => result = IF CodeTruth(RootA) THEN Shown(RootB) ELSE <<>>)

\* C9 witness: "{{#a}}{{b}}{{/a}}" rendered with a = "s" and b = 1: "b" is
\* found in the root.
C9_Witness ==
  /\ Rendered(OpenA \o VarB \o CloseA)
  /\ RootA = Str(<<"s">>)
  /\ RootB = Num(1)
  /\ result = <<"1">>

\* C10: an inverted section renders its children exactly once when its name
\* resolves to a falsy value or to nothing, and not at all otherwise; the
\* children get the context stack of the section itself, nothing pushed.
C10_InvertedSectionKeepsScope ==
  /\ [](pc = "rendering"
          => \A j \in 1..(Len(frames) - 1) :
               LET f == frames[j]
               IN FrameToken(f).inverted
                  => /\ f.ii = 0
                     /\ ~CodeTruth(FrameValue(f))
                     /\ CalledWith(j, f.context_stack))
  /\ [][ (AtSection /\ token.inverted)
         => IF CodeTruth(value) THEN Passes ELSE Enters(top.context_stack) ]_vars
  /\ [][ (pc = "rendering" /\ Len(frames) > 1 /\ Len(frames') = Len(frames) - 1
            /\ FrameToken(frames[Len(frames) - 1]).inverted)
         => ReturnsOnce ]_vars
  /\ [](Rendered(InvertedA \o TextX \o CloseA)
          => result = IF CodeTruth(RootA) THEN <<>> ELSE <<"x">>)
  /\ [](Rendered(InvertedA \o VarDot \o CloseA)
          => result = IF CodeTruth(RootA) THEN <<>> ELSE Shown(data))

\* C10 witness: "{{^a}}{{.}}{{/a}}" rendered with a = false shows the root
\* context, as "{{.}}" outside the section would.
C10_Witness ==
  /\ Rendered(InvertedA \o VarDot \o CloseA)
  /\ RootA = Bool(FALSE)
  /\ result = Shown(data)
  /\ result # <<>>

\* The output of a non-inverted section over v whose children render "x".
SectionOfX(v) ==
  IF v.t = "list" THEN [i \in 1..Len(v.v) |-> "x"]
  ELSE IF v.t = "dict" \/ CodeTruth(v) THEN <<"x">>
  ELSE <<>>

\* C11: the context pushed for a section is seen by the children of that
\* section in that iteration only: no activation's context stack ever
\* changes, the stack of a callee is the caller's stack or the caller's
\* stack plus one value, and what follows a section is rendered with the
\* stack that was in force before it.
C11_ScopeDoesNotLeak ==
  /\ [](pc = "rendering"
          => /\ frames[1].context_stack = <<data>>
             /\ \A j \in 1..(Len(frames) - 1) :
                  LET c == frames[j].context_stack
                      d == frames[j + 1].context_stack
                  IN \/ d = c
                     \/ Len(d) = Len(c) + 1 /\ SubSeq(d, 1, Len(c)) = c)
  /\ [][ (pc = "rendering" /\ pc' = "rendering")
         => \A j \in 1..Len(frames) :
              j <= Len(frames')
              => /\ frames'[j].context_stack = frames[j].context_stack
                 /\ frames'[j].tokens = frames[j].tokens ]_vars
  /\ [](Rendered(OpenA \o CloseA \o VarDot) => result = Shown(data))
  /\ [](Rendered(InvertedA \o CloseA \o VarDot) => result = Shown(data))
  /\ [](Rendered(OpenA \o TextX \o CloseA \o VarDot)
          => result = SectionOfX(RootA) \o Shown(data))

\* C11 witness: "{{.}}" after a section that iterated over [1, 2, 3] shows
\* the root context.
C11_Witness ==
  /\ Rendered(OpenA \o CloseA \o VarDot)
  /\ RootA = List(<<Num(1), Num(2), Num(3)>>)
  /\ result = Shown(data)
  /\ result # <<>>

RECURSIVE ReplaceAll(_, _, _)
\* s.replace(c, r) for a one-character c.
ReplaceAll(s, c, r) ==
  IF s = <<>> THEN <<>>
  ELSE (IF s[1] = c THEN r ELSE <<s[1]>>) \o ReplaceAll(Tail(s), c, r)

\* The five replacements of html.escape in its order: "&" first.
Entities(s) ==
  ReplaceAll(ReplaceAll(ReplaceAll(ReplaceAll(ReplaceAll(s,
    "&", <<"&", "a", "m", "p", ";">>),
    "<", <<"&", "l", "t", ";">>),
    ">", <<"&", "g", "t", ";">>),
    "\"", <<"&", "q", "u", "o", "t", ";">>),
    "'", <<"&", "#", "x", "2", "7", ";">>)

\* C12: a variable whose value is not None appends the text of the value
\* with "&", "<", ">", the double and the single quote replaced by entities,
\* so none of "<", ">" and the quotes is left in it; a literal is appended
\* as it is.
C12_VariablesAreEscaped ==
  /\ [][ (AtToken /\ token.k = "var" /\ value # Null)
         => LET piece == frames'[Len(frames)].rendered[Len(top.rendered) + 1]
            IN /\ Len(frames'[Len(frames)].rendered) = Len(top.rendered) + 1
               /\ piece = Entities(ToStr(value))
               /\ \A i \in 1..Len(piece) : piece[i] \notin {"<", ">", "\"", "'"} ]_vars
  /\ [][ (AtToken /\ token.k = "lit")
         => frames'[Len(frames)].rendered = Append(top.rendered, token.text) ]_vars
  /\ [](Rendered(VarB) /\ data = ContextList[4]
          => result = <<"&", "l", "t", ";", "b", "&", "g", "t", ";", "&", "a", "m", "p", ";",
                        "&", "q", "u", "o", "t", ";", "&", "#", "x", "2", "7", ";">>)
  /\ [](Rendered(TextLt \o VarB) /\ data = ContextList[8] => result = <<"<", "1">>)

\* C12 witness: "<{{b}}" rendered with b = <b>&"' keeps the literal "<" and
\* escapes the value.
C12_Witness ==
  /\ Rendered(TextLt \o VarB)
  /\ data = ContextList[4]
  /\ result = <<"<", "&", "l", "t", ";", "b", "&", "g", "t", ";", "&", "a", "m", "p", ";",
                "&", "q", "u", "o", "t", ";", "&", "#", "x", "2", "7", ";">>

\* C13: the name "." is the innermost context itself at every depth: the
\* root at top level, the item inside a sequence section, the pushed value
\* inside a mapping or scalar section; it is never looked up further out.
C13_DotIsInnermost ==
  /\ (pc = "rendering" /\ top.ti <= Len(lists[top.tokens])
        /\ token.k \in {"var", "sec"} /\ token.name = <<".">>
        => value = top.context_stack[Len(top.context_stack)])
  /\ (Rendered(VarDot) => result = Shown(data))
  /\ (Rendered(OpenA \o VarDot \o CloseA) /\ RootA.t = "dict" => result = Shown(RootA))
  /\ (Rendered(OpenA \o VarDot \o CloseA) /\ RootA.t = "list"
        => result = Concat([i \in 1..Len(RootA.v) |-> Shown(RootA.v[i])]))
  /\ (Rendered(OpenA \o VarDot \o CloseA) /\ RootA.t \in {"bool", "num", "str"}
        /\ CodeTruth(RootA) => result = Shown(RootA))

\* C13 witness: "{{#a}}{{.}}{{/a}}" rendered with a = {a: 0, b: 2} shows that
\* mapping, not the root.
C13_Witness ==
  /\ Rendered(OpenA \o VarDot \o CloseA)
  /\ data = ContextList[13]
  /\ result = Shown(RootA)
  /\ result # Shown(data)

\* C14: a template without "{{" is parsed to itself as one literal (to no
\* token when it is empty) and rendered to itself, whatever the context.
C14_LiteralIdentity ==
  (\A i \in 0..Len(template) : Slice(template, i, i + 2) # OPEN)
  => /\ pc # "parse_error"
     /\ (pc \in {"parsed", "rendering", "rendered"}
           => lists = <<IF template = <<>> THEN <<>> ELSE <<Literal(template)>>>>)
     /\ (pc = "rendered" => result = template)

\* C14 witness: "x<x" rendered to itself.
C14_Witness ==
  /\ Rendered(TextX \o TextLt \o TextX)
  /\ data = ContextList[4]
  /\ result = <<"x", "<", "x">>

\* The scan stands at a tag whose content is empty after trimming; lead is
\* the text between the scan position and the tag.
AtEmptyTag(lead) ==
  /\ pc = "parsing" /\ idx < Len(template)
  /\ \E s \in idx..Len(template) :
       /\ Slice(template, s, s + 2) = OPEN
       /\ \A i \in idx..(s - 1) : Slice(template, i, i + 2) # OPEN
       /\ lead = Slice(template, idx, s)
       /\ \E e \in s..Len(template) :
            /\ Slice(template, e, e + 2) = CLOSE
            /\ \A i \in s..(e - 1) : Slice(template, i, i + 2) # CLOSE
            /\ \A i \in (s + 3)..e : template[i] = " "

\* C15: a tag that is empty after trimming adds no token and leaves both
\* stacks alone; only the text before it is appended, to the innermost
\* list, and the scan goes on behind it.  "x{{ }}<" renders "x<".
C15_EmptyTagIsNoOp ==
  /\ [][ \A lead \in {<<>>, TextX, TextLt, TextX \o TextX, TextX \o TextLt,
                      TextLt \o TextX, TextLt \o TextLt, TextX \o TextX \o TextX} :
           AtEmptyTag(lead)
           => /\ stack' = stack
              /\ section_stack' = section_stack
              /\ pc' = "parsing"
              /\ idx' = idx + Len(lead) + Len(BlankTag)
              /\ lists' = IF lead = <<>> THEN lists
                          ELSE [lists EXCEPT ![stack[Len(stack)]] = Append(@, Literal(lead))] ]_vars
  /\ [](Rendered(TextX \o BlankTag \o TextLt)
          => lists = << <<Literal(TextX), Literal(TextLt)>> >> /\ result = <<"x", "<">>)
  /\ [](Rendered(BlankTag) => lists = << <<>> >> /\ result = <<>>)
  /\ [](Rendered(OpenA \o BlankTag \o CloseA) => lists[2] = <<>> /\ result = <<>>)

\* C15 witness: "x{{ }}<" rendered.
C15_Witness ==
  /\ Rendered(TextX \o BlankTag \o TextLt)
  /\ lists = << <<Literal(TextX), Literal(TextLt)>> >>
  /\ result = <<"x", "<">>

RECURSIVE TextOf(_, _, _)
\* The text of the token list h[id] under the context stack cs, as a function
\* of the tree and the stack alone.
TextOf(h, id, cs) ==
  LET piece(tk) ==
        IF tk.k = "lit" THEN tk.text
        ELSE LET v == resolve_name(tk.name, cs)
             IN IF tk.k = "var" THEN Shown(v)
                ELSE IF tk.inverted
                     THEN (IF CodeTruth(v) THEN <<>> ELSE TextOf(h, tk.tokens, cs))
                ELSE IF v.t = "list"
                     THEN Concat([i \in 1..Len(v.v) |->
                                    TextOf(h, tk.tokens, Append(cs, v.v[i]))])
                ELSE IF v.t = "dict" \/ CodeTruth(v)
                     THEN TextOf(h, tk.tokens, Append(cs, v))
                ELSE <<>>
  IN Concat([i \in 1..Len(h[id]) |-> piece(h[id][i])])

\* C16: the text render_tokens returns is a function of the token tree and
\* the root context alone, and a call changes neither the tree nor the root
\* context and leaves no activation behind; so a tree can be rendered again,
\* against any context, with the same result for the same context.
C16_RenderIsPure ==
  /\ [](pc = "rendered" => result = TextOf(lists, ret, <<data>>) /\ frames = <<>>)
  /\ [][ (pc = "parsed" \/ pc = "rendering")
         => (lists' = lists /\ ret' = ret /\ (pc = "rendering" => data' = data)) ]_vars

\* C16 witness: a tree with a section was rendered over a sequence and its
\* token lists are as parse_template returned them.
C16_Witness ==
  /\ Rendered(OpenA \o TextLt \o CloseA)
  /\ RootA = List(<<Num(1), Num(2), Num(3)>>)
  /\ lists = << <<SectionToken(<<"a">>, 2, FALSE)>>, <<Literal(TextLt)>> >>
  /\ result = <<"<", "<", "<">>

-----------------------------------------------------------------------------
(* Properties of the export workflow *)

\* C17: when the iteration of a project ends with its export manifest
\* created, the manifest was shown and its deletion prompted (or, under
\* --yes, its DELETE issued), whatever happened in between.
C17_CreatedManifestIsPrompted ==
  (step = "next" /\ proj.manifest)
  => proj.man_viewed /\ (proj.man_prompted \/ proj.man_delete)

\* The answers of the model that are "y" or "yes" in any case, blanks apart.
YesAnswers ==
  { <<"y">>, <<"Y">>, <<" ", "y", "e", "s", " ">>, <<"Y", "E", "S">> }

\* C18: a DELETE of the package or of the manifest is issued only under
\* --yes or after the answer "y" or "yes" (any case, blanks around it
\* ignored) to the prompt of that very item; an empty or any other answer
\* issues none; under --yes nothing is prompted.
C18_DeleteNeedsConfirmation ==
  /\ [](/\ (proj.pkg_delete \/ step = "package_delete")
             => args.yes \/ (proj.pkg_prompted /\ proj.pkg_answer \in YesAnswers)
        /\ (proj.man_delete \/ step = "manifest_delete")
             => args.yes \/ (proj.man_prompted /\ proj.man_answer \in YesAnswers)
        /\ args.yes => ~proj.pkg_prompted /\ ~proj.man_prompted
        /\ request.method = "DELETE" /\ request.endpoint = "packages" => proj.pkg_delete
        /\ request.method = "DELETE" /\ request.endpoint = "export_manifests"
             => proj.man_delete)
  /\ [][ (request' # request /\ request'.method = "DELETE")
         => \/ step = "package_delete" /\ request'.endpoint = "packages"
            \/ step = "manifest_delete" /\ request'.endpoint = "export_manifests" ]_vars
  /\ [][ (step = "package_prompt" /\ ~args.yes /\ step' = "package_delete")
         => proj'.pkg_answer \in YesAnswers ]_vars
  /\ [][ (step = "manifest_prompt" /\ ~args.yes /\ step' = "manifest_delete")
         => proj'.man_answer \in YesAnswers ]_vars

\* C18 witness: without --yes the package was deleted after " yes " and the
\* manifest kept after an empty answer.
C18_Witness ==
  /\ step = "next"
  /\ ~args.yes
  /\ proj.pkg_prompted /\ proj.pkg_answer = <<" ", "y", "e", "s", " ">> /\ proj.pkg_delete
  /\ proj.man_prompted /\ proj.man_answer = <<>> /\ ~proj.man_delete

\* The statuses of the model that are "completed" or "failed" in any case.
FinishedAnyCase == {StatusCompleted, StatusCompletedCap, StatusFailed}

\* C19: TimeoutError is raised only when the last fetched status is not
\* "completed" or "failed".
C19_TimeoutOnlyIfUnfinished ==
  proj.timed_out => last \notin FinishedAnyCase

\* C20: wait_for_package returns only a package fetched with status
\* "completed" or "failed" in any case; on any other status before the
\* deadline it sleeps at least one second and fetches again; TimeoutError
\* comes only at or after the deadline; and the package is fetched at most
\* poll_timeout + 1 times, so the loop ends.
C20_WaitReturnsFinished ==
  /\ [](/\ (step = "status" \/ proj.final) => last \in FinishedAnyCase /\ fetches >= 1
        /\ proj.timed_out => clock >= deadline /\ ~proj.final
        /\ fetches <= args.poll_timeout + 1
        /\ (step = "test" => deadline = args.poll_timeout))
  /\ [][ (step = "test" /\ last \notin FinishedAnyCase /\ clock < deadline)
         => /\ clock' >= clock + 1
            /\ fetches' = fetches + 1
            /\ request' = Request("GET", "packages", working_base)
            /\ ~proj'.final /\ ~proj'.timed_out
            /\ step' \in {"test", "next"} ]_vars
  /\ [][ (step = "test" /\ last \in FinishedAnyCase /\ clock < deadline)
         => proj'.final /\ step' = "status" /\ last' = last ]_vars
  /\ [][ (step = "test" /\ clock >= deadline) => proj'.timed_out /\ ~proj'.final ]_vars

\* C20 witness: with --poll-interval 0 and --poll-timeout 2 the package was
\* fetched a second time one second after the first and returned as
\* "Completed".
C20_Witness ==
  /\ step = "status"
  /\ args.poll_interval = 0 /\ args.poll_timeout = 2
  /\ fetches = 2
  /\ clock = 1
  /\ last = StatusCompletedCap

\* The steps of an iteration behind the creation of the manifest.
AfterCreation ==
  {"export", "wait", "test", "status", "download", "package_view", "package_prompt",
   "package_delete", "manifest_view", "manifest_prompt", "manifest_delete"}

\* The hosts a manifest can be created on: the --base-url without its
\* trailing slashes, or one of the three known hosts.
KnownHosts ==
  {<<"https://www.workato.com">>, <<"https://app.workato.com">>,
   <<"https://www.workato.eu">>, <<"https://example.test">>}

\* C21: within the iteration of a project the export is started only with a
\* manifest created on some base URL; the zip is requested only after the
\* wait returned a package whose status is exactly "completed", never for
\* "failed" or "Completed"; a DELETE of the package or the manifest is
\* issued only after the zip was downloaded; and from the creation of the
\* manifest on every request goes to the base URL that created it.
C21_WorkflowOrder ==
  /\ [](/\ step \in AfterCreation => proj.manifest
        /\ proj.package => proj.manifest
        /\ proj.manifest => working_base \in KnownHosts /\ request.base = working_base
        /\ (step = "download" \/ proj.downloaded)
             => proj.package /\ proj.final /\ last = StatusCompleted
        /\ step \in {"package_view", "package_prompt", "package_delete", "manifest_view",
                     "manifest_prompt", "manifest_delete"} => proj.downloaded
        /\ (proj.pkg_delete \/ proj.man_delete) => proj.downloaded)
  /\ [][ (~proj.manifest /\ proj'.manifest)
         => /\ request'.method = "POST" /\ request'.endpoint = "export_manifests"
            /\ working_base' = request'.base ]_vars
  /\ [][ (proj.manifest /\ proj'.manifest)
         => working_base' = working_base /\ request'.base = working_base ]_vars
  /\ [][ (request' # request /\ request'.endpoint = "packages/export")
         => proj.manifest /\ step = "export" ]_vars
  /\ [][ (request' # request /\ request'.endpoint = "packages/download")
         => proj.final /\ last = StatusCompleted ]_vars
  /\ [][ (request' # request /\ request'.method = "DELETE") => proj.downloaded ]_vars
  /\ [][ (step = "status" /\ last # StatusCompleted)
         => step' = "next" /\ request' = request ]_vars

\* C21 witness: the first base answered 404, the manifest was created on
\* the second, the package was downloaded, and both DELETEs went to the
\* second base.
C21_Witness ==
  /\ step = "next"
  /\ args.base_url = UserBases[3]
  /\ candidate = 2
  /\ working_base = <<"https://www.workato.com">>
  /\ proj.downloaded /\ proj.pkg_delete /\ proj.man_delete
  /\ request = [method |-> "DELETE", endpoint |-> "export_manifests",
                base |-> <<"https://www.workato.com">>]

\* C22: a failure while one selected project is processed does not stop
\* the run: the run ends only by main returning after the last selected
\* project.
C22_FailureDoesNotStopTheRun ==
  step \notin {"payload", "create", "export", "wait", "test", "status", "download",
               "package_view", "package_prompt", "package_delete", "manifest_view",
               "manifest_prompt", "manifest_delete", "next"}
  => step = "done" /\ project = selected

-----------------------------------------------------------------------------
(* The parser's stacks *)

\* The places (list, position) of the heap that hold a section whose
\* children are the list id.
ParentsOf(id) ==
  UNION { { <<i, p>> : p \in {q \in 1..Len(lists[i]) :
                                /\ lists[i][q].k = "sec"
                                /\ lists[i][q].tokens = id} } :
          i \in 1..Len(lists) }

\* C23: while parse_template runs the insertion-point stack has one entry
\* more than the stack of open sections, its bottom is the top-level list,
\* and entry i + 1 is the children list of the i-th open section, which is
\* the last token of entry i; a step changes no list but the innermost
\* one, which it only extends; and every children list belongs to exactly
\* one section of exactly one parent list, the top-level list to none.
C23_StackInvariant ==
  /\ [](pc \in {"parsing", "scanned", "parse_error", "parsed"}
        => /\ Len(stack) = Len(section_stack) + 1
           /\ stack[1] = 1
           /\ \A i \in 1..Len(section_stack) :
                /\ stack[i + 1] = section_stack[i].tokens
                /\ stack[i + 1] \in 2..Len(lists)
                /\ lists[stack[i]] # <<>>
                /\ lists[stack[i]][Len(lists[stack[i]])] = section_stack[i]
           /\ \A i, j \in 1..Len(stack) : i # j => stack[i] # stack[j]
           /\ ParentsOf(1) = {}
           /\ \A id \in 2..Len(lists) : Cardinality(ParentsOf(id)) = 1)
  /\ [][ pc = "parsing"
         => LET innermost == IF section_stack = <<>> THEN 1
                             ELSE section_stack[Len(section_stack)].tokens
            IN /\ \A id \in 1..Len(lists) :
                    /\ id <= Len(lists')
                    /\ id # innermost => lists'[id] = lists[id]
               /\ Len(lists'[innermost]) >= Len(lists[innermost])
               /\ SubSeq(lists'[innermost], 1, Len(lists[innermost])) = lists[innermost]
               /\ \A id \in (Len(lists) + 1)..Len(lists') : lists'[id] = <<>> ]_vars

\* C23 witness: "{{#a}}{{# b }}{{.}}" scanned to its end: two sections are
\* open and the variable is in the children of the inner one.
C23_Witness ==
  /\ template = OpenA \o OpenB \o VarDot
  /\ pc = "parsing"
  /\ idx = Len(template)
  /\ Len(section_stack) = 2
  /\ stack = <<1, 2, 3>>
  /\ lists = << <<SectionToken(<<"a">>, 2, FALSE)>>,
                <<SectionToken(<<"b">>, 3, FALSE)>>,
                <<VariableToken(<<".">>)>> >>

====
